---- MODULE Spec2Model ----
(***************************************************************************)
(* Model of src/app.py: a Streamlit script that collects a search form,    *)
(* issues one GET to the YouTube search endpoint (get_videos), reshapes    *)
(* the JSON into a dataframe (data_to_df) and renders two tabs.            *)
(*                                                                         *)
(* A Streamlit script is re-run from the top on every widget interaction   *)
(* that is not batched by a form.  One script run is modelled as the       *)
(* sequence of steps  Submit -> (requests.get returns) -> get_videos_json  *)
(* -> Transform -> Present; a run that is not triggered by the form's      *)
(* submit button (DownloadClick, PageLoad) skips the `if submitted:` block *)
(* and is one step.  User interactions are taken between script runs.      *)
(* `page` is what the current (or last) script run has rendered.           *)
(***************************************************************************)
EXTENDS Integers, Sequences, FiniteSets, TLC

\* ------------------------------------------------------------------ bounds
MaxItems   == 3   \* longest provider item list with arbitrary item shapes
MaxFull    == 6   \* longest provider item list of complete items
MaxPick    == 6   \* largest non-default value the user types into "Max Results"
MaxSubmits == 2   \* number of form submissions explored
MaxArg     == 6   \* direct callers of get_videos pass 0..MaxArg or MaxResults + 1

\* ------------------------------------------------------- program constants
MinResults     == 5    \* st.number_input(min_value=5)
MaxResults     == 50   \* st.number_input(max_value=50)
DefaultResults == 50   \* st.number_input(value=50)

VideoPrefix   == "https://www.youtube.com/watch?v="
ChannelPrefix == "https://www.youtube.com/channel/"
NaN           == "NaN"

\* --------------------------------------------------------- provider items
\* The flattened keys of one search item, in the order the provider sends
\* them.  "etag" stands for the keys the program never touches.
ItemKeys == << "etag", "id.videoId", "snippet.publishedAt", "snippet.channelId",
               "snippet.title", "snippet.description", "snippet.channelTitle" >>

Range(s) == { s[i] : i \in 1..Len(s) }

FullItem == Range(ItemKeys)

\* An item is the set of flattened keys it carries.
ItemShapes == { FullItem, FullItem \ {"id.videoId"}, FullItem \ {"snippet.title"} }

ItemLists ==
    UNION { [1..n -> ItemShapes] : n \in 0..MaxItems }
    \cup { [i \in 1..n |-> FullItem] : n \in 0..MaxFull }

\* The value an item carries under a key.
ValueOf(k) ==
    CASE k = "etag"                 -> "e"
      [] k = "id.videoId"           -> "vid"
      [] k = "snippet.publishedAt"  -> "2023-02-01T00:00:00Z"
      [] k = "snippet.channelId"    -> "chan"
      [] k = "snippet.title"        -> "title"
      [] k = "snippet.description"  -> "desc"
      [] k = "snippet.channelTitle" -> "creator"

\* Response bodies: not JSON at all, a JSON object without 'items' (the
\* provider's error document), or a JSON object with an 'items' list.
NotJson   == [json |-> FALSE, hasItems |-> FALSE, items |-> << >>]
ErrorBody == [json |-> TRUE,  hasItems |-> FALSE, items |-> << >>]
ItemsBody(its) == [json |-> TRUE, hasItems |-> TRUE, items |-> its]

Bodies == {NotJson, ErrorBody} \cup { ItemsBody(its) : its \in ItemLists }

Statuses == {200, 403}

\* ------------------------------------------------------------- dataframes
\* A dataframe is its ordered column names and its rows; a row maps every
\* column to a value or NaN.
RECURSIVE ColumnsOf(_, _)
\* columns of json_normalize: keys in order of first appearance
ColumnsOf(items, acc) ==
    IF items = << >> THEN acc
    ELSE LET item == Head(items)
             IsNew(k) == k \in item /\ k \notin Range(acc)
         IN  ColumnsOf(Tail(items), acc \o SelectSeq(ItemKeys, IsNew))

\* json_normalize that loses the first record
json_normalize_DropsRow(items) ==
    LET kept == IF items = << >> THEN items ELSE Tail(items)
        cols == ColumnsOf(kept, << >>)
    IN  [ columns |-> cols,
          rows    |-> [ i \in 1..Len(kept) |->
                          [ c \in Range(cols) |->
                              IF c \in kept[i] THEN ValueOf(c) ELSE NaN ] ] ]

json_normalize(items) ==
    LET cols == ColumnsOf(items, << >>)
    IN  [ columns |-> cols,
          rows    |-> [ i \in 1..Len(items) |->
                          [ c \in Range(cols) |->
                              IF c \in items[i] THEN ValueOf(c) ELSE NaN ] ] ]

RenameMap(c) ==
    CASE c = "id.videoId"           -> "video_id"
      [] c = "snippet.publishedAt"  -> "publish_date"
      [] c = "snippet.channelId"    -> "channel_id"
      [] c = "snippet.title"        -> "title"
      [] c = "snippet.description"  -> "description"
      [] c = "snippet.channelTitle" -> "channel_name"
      [] OTHER                      -> c

RenameInv(df, n) == CHOOSE c \in Range(df.columns) : RenameMap(c) = n

rename(df) ==
    LET cols == [ i \in 1..Len(df.columns) |-> RenameMap(df.columns[i]) ]
    IN  [ columns |-> cols,
          rows    |-> [ i \in 1..Len(df.rows) |->
                          [ n \in Range(cols) |-> df.rows[i][RenameInv(df, n)] ] ] ]

\* str + Series: element-wise, NaN stays NaN
Concat(prefix, v) == IF v = NaN THEN NaN ELSE prefix \o v

\* df.assign(name = prefix + x[src]); the caller checks src is a column
assign(df, name, prefix, src) ==
    [ columns |-> IF name \in Range(df.columns) THEN df.columns
                  ELSE Append(df.columns, name),
      rows    |-> [ i \in 1..Len(df.rows) |->
                      [ c \in Range(df.columns) \cup {name} |->
                          IF c = name THEN Concat(prefix, df.rows[i][src])
                          ELSE df.rows[i][c] ] ] ]

ExportColumns == << "publish_date", "video_url", "title",
                    "description", "channel_name", "channel_url" >>

\* df[[...]]: the caller checks every name is a column
project(df, cols) ==
    [ columns |-> cols,
      rows    |-> [ i \in 1..Len(df.rows) |->
                      [ c \in Range(cols) |-> df.rows[i][c] ] ] ]

Raised(e) == [ok |-> FALSE, exc |-> e]

data_to_df(data) ==
    IF ~data.hasItems THEN Raised("KeyError: 'items'")
    ELSE
    LET df1 == rename(json_normalize(data.items)) IN
    IF "video_id" \notin Range(df1.columns) THEN Raised("KeyError: 'video_id'")
    ELSE
    LET df2 == assign(df1, "video_url", VideoPrefix, "video_id") IN
    IF "channel_id" \notin Range(df2.columns) THEN Raised("KeyError: 'channel_id'")
    ELSE
    LET df3 == assign(df2, "channel_url", ChannelPrefix, "channel_id") IN
    IF ~(Range(ExportColumns) \subseteq Range(df3.columns))
    THEN Raised("KeyError: not in index")
    ELSE [ok |-> TRUE, df |-> df3, csv |-> project(df3, ExportColumns)]

\* ------------------------------------------------------------------ state
VARIABLES
    secret,       \* TRUE iff st.secrets holds 'API_KEY'
    max_results,  \* value of the "Max Results" number input
    pc,           \* position of the running script ("idle": no run active)
    caller,       \* who invoked get_videos: the script's form path or an importer
    request,      \* PARAMS of the GET issued by the current run
    response,     \* what requests.get returned in the current run
    raw_data,     \* the parsed JSON returned by get_videos
    result,       \* what data_to_df returned or raised
    exc,          \* the uncaught exception that ended the current run
    page,         \* elements rendered below the form by the current run
    ran,          \* pipeline stages entered by the current run
    fetchFailed,  \* the current run's fetch failed (network, status or body)
    submits,      \* number of form submissions so far
    gets,         \* number of GET attempts so far
    inflight      \* number of GETs awaiting the provider

vars == << secret, max_results, pc, caller, request, response, raw_data, result,
           exc, page, ran, fetchFailed, submits, gets, inflight >>

NoRequest  == [sent |-> FALSE]
NoResponse == [arrived |-> FALSE]
NoData     == [json |-> FALSE, hasItems |-> FALSE, items |-> << >>, none |-> TRUE]
NoResult   == [ok |-> FALSE, exc |-> "None"]
NoTable    == [columns |-> << >>, rows |-> << >>, shown |-> FALSE]

BlankPage == [tabs |-> FALSE, table |-> NoTable, download |-> FALSE, videos |-> 0]

\* a number input declared without min_value
Picks_NoMin == { m \in (MinResults - 1)..MaxResults : m <= MaxPick \/ m = DefaultResults }

\* values the bounded number input accepts, as far as the user tries them
Picks == { m \in MinResults..MaxResults : m <= MaxPick \/ m = DefaultResults }

PARAMS(m) ==
    [ sent            |-> TRUE,
      key             |-> "API_KEY",
      q               |-> "'Streamlit'",
      part            |-> "snippet",
      type            |-> "video",
      maxResults      |-> m,
      order           |-> "date",
      publishedAfter  |-> "2023-01-01T00:00:00Z",
      publishedBefore |-> "2023-12-31T23:59:59Z" ]

\* requests.get called with timeout=: the wait can also end by itself
FailureKinds_Timeout == {"ConnectionError", "Timeout"}

\* requests.get(URL, params=PARAMS) is called without timeout=, so the only
\* way it raises is a failure of the connection itself.
FailureKinds == {"ConnectionError"}

Init ==
    /\ secret \in BOOLEAN
    /\ max_results = DefaultResults
    /\ pc = "idle"
    /\ caller = "form"
    /\ request = NoRequest
    /\ response = NoResponse
    /\ raw_data = NoData
    /\ result = NoResult
    /\ exc = "None"
    /\ page = BlankPage
    /\ ran = {}
    /\ fetchFailed = FALSE
    /\ submits = 0
    /\ gets = 0
    /\ inflight = 0

\* a script run starts with fresh locals
FreshRun ==
    /\ response' = NoResponse
    /\ raw_data' = NoData
    /\ result' = NoResult
    /\ fetchFailed' = FALSE

\* get_videos that issues the GET without looking the key up first
get_videos_call_NoKeyCheck(m) ==
    /\ FreshRun
    /\ ran' = {"get_videos"}
    /\ exc' = "None"
    /\ pc' = "fetch"
    /\ request' = PARAMS(m)
    /\ gets' = gets + 1
    /\ inflight' = inflight + 1

\* get_videos up to and including the call of requests.get: the PARAMS
\* literal looks the key up first, then the GET goes out with max_results
\* as passed.
get_videos_call(m) ==
    /\ FreshRun
    /\ ran' = {"get_videos"}
    /\ IF ~secret
       THEN /\ exc' = "KeyError: 'API_KEY'"
            /\ pc' = "idle"
            /\ request' = NoRequest
            /\ UNCHANGED << gets, inflight >>
       ELSE /\ exc' = "None"
            /\ pc' = "fetch"
            /\ request' = PARAMS(m)
            /\ gets' = gets + 1
            /\ inflight' = inflight + 1

\* the same widget placed outside st.form: every edit re-runs the script
SetMaxResults_Rerun(m) ==
    /\ pc = "idle"
    /\ m # max_results
    /\ max_results' = m
    /\ FreshRun
    /\ request' = NoRequest
    /\ exc' = "None"
    /\ ran' = {}
    /\ page' = BlankPage
    /\ UNCHANGED << secret, pc, caller, submits, gets, inflight >>

\* The user edits "Max Results".  The widget lives inside st.form, so the
\* script is not re-run until the form is submitted.
SetMaxResults(m) ==
    /\ pc = "idle"
    /\ m # max_results
    /\ max_results' = m
    /\ UNCHANGED << secret, pc, caller, request, response, raw_data, result,
                    exc, page, ran, fetchFailed, submits, gets, inflight >>

\* The user presses Submit: the script re-runs with submitted = True.
Submit ==
    /\ pc = "idle"
    /\ submits < MaxSubmits
    /\ submits' = submits + 1
    /\ page' = BlankPage
    /\ caller' = "form"
    /\ get_videos_call(max_results)
    /\ UNCHANGED << secret, max_results >>

\* a fetch that is retried once after a failure
NetworkFail_Retry(kind) ==
    /\ pc = "fetch"
    /\ gets <= submits
    /\ gets' = gets + 1
    /\ UNCHANGED << secret, max_results, pc, caller, request, response, raw_data,
                    result, exc, page, ran, fetchFailed, submits, inflight >>

\* requests.get raises
NetworkFail(kind) ==
    /\ pc = "fetch"
    /\ exc' = kind
    /\ fetchFailed' = TRUE
    /\ inflight' = inflight - 1
    /\ pc' = "idle"
    /\ UNCHANGED << secret, max_results, caller, request, response, raw_data,
                    result, page, ran, submits, gets >>

\* requests.get returns a response; its status is never inspected
Respond(status, body) ==
    /\ pc = "fetch"
    /\ response' = [arrived |-> TRUE, status |-> status, body |-> body]
    /\ fetchFailed' = (status \notin 200..299)
    /\ inflight' = inflight - 1
    /\ pc' = "json"
    /\ UNCHANGED << secret, max_results, caller, request, raw_data, result,
                    exc, page, ran, submits, gets >>

\* data = response.json(); return data
get_videos_json ==
    /\ pc = "json"
    /\ IF ~response.body.json
       THEN /\ exc' = "JSONDecodeError"
            /\ fetchFailed' = TRUE
            /\ pc' = "idle"
            /\ UNCHANGED raw_data
       ELSE /\ raw_data' = response.body
            /\ pc' = IF caller = "form" THEN "transform" ELSE "idle"
            /\ UNCHANGED << exc, fetchFailed >>
    /\ UNCHANGED << secret, max_results, caller, request, response, result,
                    page, ran, submits, gets, inflight >>

\* df, csv = data_to_df(raw_data)
Transform ==
    /\ pc = "transform"
    /\ ran' = ran \cup {"data_to_df"}
    /\ result' = data_to_df(raw_data)
    /\ IF result'.ok
       THEN pc' = "present" /\ UNCHANGED exc
       ELSE pc' = "idle" /\ exc' = result'.exc
    /\ UNCHANGED << secret, max_results, caller, request, response, raw_data,
                    page, fetchFailed, submits, gets, inflight >>

\* rows of the 'Videos' tab rendered before st.video meets a NaN url
RECURSIVE VideosShown(_)
VideosShown(rows) ==
    IF rows = << >> \/ Head(rows)["video_url"] = NaN THEN 0
    ELSE 1 + VideosShown(Tail(rows))

\* st.tabs, the table and the download button, then the per-row video list
Present ==
    /\ pc = "present"
    /\ ran' = ran \cup {"present"}
    /\ LET shown == VideosShown(result.df.rows)
       IN  /\ page' = [ tabs     |-> TRUE,
                        table    |-> [ columns |-> result.csv.columns,
                                       rows    |-> result.csv.rows,
                                       shown   |-> TRUE ],
                        download |-> TRUE,
                        videos   |-> shown ]
           /\ exc' = IF shown < Len(result.df.rows) THEN "RuntimeError" ELSE "None"
    /\ pc' = "idle"
    /\ UNCHANGED << secret, max_results, caller, request, response, raw_data,
                    result, fetchFailed, submits, gets, inflight >>

\* a script run that is not a form submission: submitted = False, the
\* `if submitted:` block is skipped and only the form is rendered
RerunNotSubmitted ==
    /\ FreshRun
    /\ request' = NoRequest
    /\ exc' = "None"
    /\ ran' = {}
    /\ page' = BlankPage
    /\ UNCHANGED << secret, pc, caller, submits, gets, inflight >>

\* The user clicks "Download data as CSV": the button is outside the form,
\* so the click re-runs the script.
DownloadClick ==
    /\ pc = "idle"
    /\ page.download
    /\ RerunNotSubmitted
    /\ UNCHANGED max_results

\* A fresh page load starts a new session: widgets take their defaults.
PageLoad ==
    /\ pc = "idle"
    /\ RerunNotSubmitted
    /\ max_results' = DefaultResults

\* max_results values a direct caller passes: below, inside and above [5,50]
DirectArgs == (0..MaxArg) \cup {MaxResults + 1}

\* get_videos called by code that imports the module, with any max_results
\* (explored before the first form submission)
DirectCall(m) ==
    /\ pc = "idle"
    /\ submits = 0
    /\ gets < MaxSubmits
    /\ caller' = "direct"
    /\ get_videos_call(m)
    /\ UNCHANGED << secret, max_results, page, submits >>

Next ==
    \/ \E m \in Picks : SetMaxResults(m)
    \/ Submit
    \/ \E kind \in FailureKinds : NetworkFail(kind)
    \/ \E status \in Statuses, body \in Bodies : Respond(status, body)
    \/ get_videos_json
    \/ Transform
    \/ Present
    \/ DownloadClick
    \/ PageLoad

Spec == Init /\ [][Next]_vars

NextLib ==
    \/ Next
    \/ \E m \in DirectArgs : DirectCall(m)

SpecLib == Init /\ [][NextLib]_vars

\* ----------------------------------------------------------- properties
\* The error taxonomy of the specification, applied to the exceptions the
\* program can end a run with.
Taxonomy(e) ==
    CASE e = "KeyError: 'API_KEY'"                  -> "ConfigurationError"
      [] e \in {"ConnectionError", "Timeout"}       -> "NetworkError"
      [] e = "HTTPError"                            -> "ProviderError"
      [] e \in {"JSONDecodeError", "KeyError: 'items'", "KeyError: 'video_id'",
                "KeyError: 'channel_id'", "KeyError: not in index"}
                                                    -> "MalformedResponseError"
      [] OTHER                                      -> "None"

WellFormed(data) ==
    data.hasItems /\ \A i \in 1..Len(data.items) : data.items[i] = FullItem

Malformed(data) ==
    data.json /\ (~data.hasItems \/ \E i \in 1..Len(data.items) : data.items[i] # FullItem)

Idle    == pc = "idle" /\ ~page.tabs /\ exc = "None"
Results == pc = "idle" /\ page.tabs

\* C1: after a failed fetch (network failure, non-2xx status, body that is
\* not JSON) neither data_to_df nor the present step is entered and nothing
\* is rendered.
C1_FailedFetchStopsPipeline ==
    fetchFailed =>
        /\ "data_to_df" \notin ran
        /\ "present" \notin ran
        /\ ~page.tabs
        /\ ~page.table.shown

\* C2: a 403 answer carrying a JSON error body ends the submission in a
\* ProviderError outcome with neither tab rendered.
C2_ForbiddenIsProviderError ==
    ( /\ pc = "idle"
      /\ response.arrived
      /\ response.status = 403
      /\ response.body = ErrorBody )
    => ( Taxonomy(exc) = "ProviderError" /\ ~page.tabs )

\* C3: when the parsed JSON has no 'items' key or an item lacks an expected
\* sub-field, the transformer fails with a MalformedResponseError (never a
\* silent default) and no table is shown.
C3_MalformedIsRejected ==
    ( "data_to_df" \in ran /\ Malformed(raw_data) )
    => ( /\ ~result.ok
         /\ Taxonomy(result.exc) = "MalformedResponseError"
         /\ ~page.table.shown )

\* C4: for every well-formed 'items' list, the empty one included,
\* data_to_df returns an export projection with exactly the six export
\* columns in order.
C4_SixColumnsAlways ==
    ( "data_to_df" \in ran /\ WellFormed(raw_data) )
    => ( result.ok /\ result.csv.columns = ExportColumns )

\* C5 (as claimed): every outbound request carries maxResults in [5,50], on
\* every path that reaches get_videos.
C5_EveryRequestInRange ==
    request.sent => request.maxResults \in MinResults..MaxResults

\* C5 (amended): every request issued by a form submission carries
\* maxResults in [5,50], the value of the bounded number input.
C5_FormRequestsInRange ==
    /\ max_results \in MinResults..MaxResults
    /\ (request.sent /\ caller = "form")
          => request.maxResults \in MinResults..MaxResults
    /\ (request.sent /\ caller = "form" /\ pc # "idle")
          => request.maxResults = max_results

C5_Witness ==
    request.sent /\ caller = "form" /\ request.maxResults = MinResults

C7_MissingKeyDetectedAtStartup ==
    ~secret => ( gets = 0 /\ Taxonomy(exc) = "ConfigurationError" )

\* C7 (amended): with the API key absent no GET is ever issued; the key
\* lookup in get_videos ends a submission before the GET, and nothing is
\* detected before a submission reaches get_videos.
C7_NoGetWithoutKey ==
    ~secret =>
        /\ gets = 0
        /\ inflight = 0
        /\ ~request.sent
        /\ pc = "idle"
        /\ ("get_videos" \in ran) <=> (exc = "KeyError: 'API_KEY'")
        /\ exc \in {"None", "KeyError: 'API_KEY'"}

C7_Witness ==
    ~secret /\ submits > 0 /\ exc = "KeyError: 'API_KEY'" /\ ~page.tabs

C9_OnlyPageLoadLeavesResults ==
    [][ (Results /\ Idle') => PageLoad ]_vars

\* C9 (amended): Results is entered only by the present step of a
\* submitted run; from Results the page returns to Idle by a fresh page
\* load or by a click on the download button, and by nothing else.
C9_LeavingResults ==
    [][ /\ (Results /\ Idle') => (PageLoad \/ DownloadClick)
        /\ (~page.tabs /\ page'.tabs) => (pc = "present" /\ "get_videos" \in ran)
      ]_vars

C9_Witness ==
    Results /\ page.download /\ max_results # DefaultResults

\* C10: the fetch has no timeout and no cancellation: while the GET is in
\* flight nothing is rendered and no error is reported, and the run leaves
\* the fetch only when the provider answers or the connection fails.
C10_FetchBlocksUntilAnswer ==
    [][ /\ (pc = "fetch") => (exc = "None" /\ ~page.tabs /\ ~response.arrived)
        /\ (pc = "fetch" /\ pc' # "fetch")
              => (response'.arrived \/ exc' = "ConnectionError")
      ]_vars

\* The script's own steps always run to completion; the provider's answer
\* is not the program's to schedule, so it carries no fairness.
FairSpec == Spec /\ WF_vars(get_videos_json \/ Transform \/ Present)

\* The liveness that C10 denies: every fetch eventually ends.  It fails
\* under FairSpec on the behaviour that stays in the fetch forever.
EveryFetchEnds == (pc = "fetch") ~> (pc = "idle")

C10_Witness ==
    pc = "fetch" /\ inflight = 1 /\ submits = MaxSubmits

====
